---------------------------- MODULE Spec2Model ----------------------------
(***************************************************************************)
(* The plotting core of seismicToolBox (src/seismicToolBoxClass.py):       *)
(* wiggle, imageseis and the slider callback update, over a small data     *)
(* matrix.                                                                 *)
(*                                                                         *)
(* Number representations                                                  *)
(*  - self.Data holds integer amplitudes.  Every working copy made inside  *)
(*    a call holds amplitudes in HALF units (the stored integer is twice   *)
(*    the amplitude), so that the linear interpolation of np.percentile    *)
(*    between two integers is exact.                                       *)
(*  - the entries of the caller's timesample_interval list are numbers in  *)
(*    QUARTER units (the stored integer is four times the number), so      *)
(*    that a time in seconds need not be a multiple of dt.                 *)
(*  - a point of a drawn trace is a record [nan, n, d]: the rational n/d,  *)
(*    or NaN.                                                              *)
(***************************************************************************)
EXTENDS Integers, Sequences, FiniteSets, TLC

(* ------------------------------ bounds -------------------------------- *)
NumSamples == 3
NumTraces == 3
MaxCalls == 2
SamplesPerSecond == 2

(* The values of the arguments and of the samples that are not zero. *)
Amp == {-2, 1}
Percs == {0, 50, 100}
Gains == {1, 2}
Skips == {1, 2}

(* ------------------------------ helpers ------------------------------- *)
Min2(a, b) == IF a <= b THEN a ELSE b
Max2(a, b) == IF a >= b THEN a ELSE b
Abs(a) == IF a < 0 THEN -a ELSE a

RECURSIVE SeqMax(_)
SeqMax(s) == IF Len(s) = 1 THEN s[1] ELSE Max2(s[1], SeqMax(Tail(s)))

RECURSIVE SeqMin(_)
SeqMin(s) == IF Len(s) = 1 THEN s[1] ELSE Min2(s[1], SeqMin(Tail(s)))

RECURSIVE Flatten(_)
Flatten(m) == IF m = <<>> THEN <<>> ELSE m[1] \o Flatten(Tail(m))

RECURSIVE Insert(_, _)
Insert(v, s) ==
    IF s = <<>> THEN <<v>>
    ELSE IF v <= s[1] THEN <<v>> \o s
    ELSE <<s[1]>> \o Insert(v, Tail(s))

RECURSIVE Sorted(_)
Sorted(s) == IF s = <<>> THEN <<>> ELSE Insert(s[1], Sorted(Tail(s)))

(* A caller-held list object, or None. *)
NoneList == [isNone |-> TRUE, items |-> <<>>]
List(s) == [isNone |-> FALSE, items |-> s]

(* An integer k as a stored number, int() of a stored number, and the    *)
(* stored number divided by self.dt (dt = 1/SamplesPerSecond seconds).   *)
Num(k) == 4 * k
IntOf(r) == r \div 4
DivDt(r) == r * SamplesPerSecond

(* A sequence given by a function constructor, as an explicit value    *)
(* (evaluated once, not at every use).                                   *)
Array(f) == f @@ <<>>

(* Python's s[a:b] for 0 <= a, 0 <= b. *)
PySlice(s, a, b) == SubSeq(s, Min2(a, Len(s)) + 1, Min2(b, Len(s)))

(* range(a, b) *)
PyRange(a, b) == IF b > a THEN Array([i \in 1..(b - a) |-> a + i - 1]) ELSE <<>>

(* Data[:, a:b] and Data[a:b, :] *)
SliceCols(m, a, b) == Array([r \in 1..Len(m) |-> PySlice(m[r], a, b)])
SliceRows(m, a, b) == PySlice(m, a, b)

Size(m) == Len(Flatten(m))
Column(m, c) == Array([r \in 1..Len(m) |-> m[r][c]])

(* copy.copy(self.Data): a new array holding the same samples (here in   *)
(* half units).                                                           *)
CopyData(D) ==
    Array([r \in 1..Len(D) |-> Array([c \in 1..Len(D[r]) |-> 2 * D[r][c]])])


(* --------------------------- RangeSelector ---------------------------- *)
(* The head of wiggle and of imageseis: the timewindow conversion, which *)
(* stores int(entry / dt) back into the caller's list, and after it the  *)
(* two length checks.  outcome is "ok", "config_error" (the message and   *)
(* sys.exit()) or "exception" (None or a list shorter than 2 is indexed). *)
ConvertWindow(tsi) ==
    List([tsi.items EXCEPT ![1] = Num(IntOf(DivDt(tsi.items[1]))),
                           ![2] = Num(IntOf(DivDt(tsi.items[2])))])

SelectRange(ti, tsi, tw) ==
    IF tw /\ (tsi.isNone \/ Len(tsi.items) < 2)
    THEN [outcome |-> "exception", tsi |-> tsi]
    ELSE LET tsi1 == IF tw THEN ConvertWindow(tsi) ELSE tsi
         IN  IF ~ti.isNone /\ Len(ti.items) # 2
             THEN [outcome |-> "config_error", tsi |-> tsi1]
             ELSE IF ~tsi1.isNone /\ Len(tsi1.items) # 2
             THEN [outcome |-> "config_error", tsi |-> tsi1]
             ELSE [outcome |-> "ok", tsi |-> tsi1]

(* The copy of self.Data, sliced by the two ranges. *)
SliceData(D, ti, tsi) ==
    LET d0 == CopyData(D)
        d1 == IF ti.isNone THEN d0
              ELSE SliceCols(d0, ti.items[1], ti.items[2])
    IN  IF tsi.isNone THEN d1
        ELSE SliceRows(d1, IntOf(tsi.items[1]), IntOf(tsi.items[2]))

(* -------------------------- PercentileClipper ------------------------- *)
(* np.percentile(Data, perc) of a non-empty array: linear interpolation  *)
(* at position perc/100 * (n-1) of the sorted samples.                   *)
Percentile(m, perc) ==
    LET s   == Sorted(Flatten(m))
        pos == perc * (Len(s) - 1)
        lo  == (pos \div 100) + 1
        rem == pos % 100
    IN  IF rem = 0 THEN s[lo]
        ELSE s[lo] + ((rem * (s[lo + 1] - s[lo])) \div 100)

NthPercentile(m, perc) == Abs(Percentile(m, perc))

(* np.clip(Data, a_min, a_max) = minimum(maximum(Data, a_min), a_max),   *)
(* a new array.                                                          *)
NpClip(m, lo, hi) ==
    Array([r \in 1..Len(m) |->
        Array([c \in 1..Len(m[r]) |-> Min2(Max2(m[r][c], lo), hi)])])

(* lines 167-170 *)
ClipData(m, perc) ==
    LET nth_percentile == NthPercentile(m, perc)
    IN  NpClip(m, -nth_percentile, nth_percentile)

(* np.max(Data) of a non-empty array *)
NpMax(m) == SeqMax(Flatten(m))

(* np.max(np.abs(Data)) *)
NpMaxAbs(m) ==
    LET flat == Flatten(m)
    IN  SeqMax(Array([k \in 1..Len(flat) |-> Abs(flat[k])]))

(* ------------------------ coordinates and labels ---------------------- *)
(* The explicit coordinates a caller passes: one x per trace of          *)
(* self.Data, one t per sample of self.Data.                              *)
XCoords == Array([c \in 1..NumTraces |-> 10 * c])
TCoords == Array([r \in 1..NumSamples |-> 5 * (r - 1)])

(* wiggle, lines 184-192 *)
WiggleX(xArg, ti, ntraces) ==
    IF xArg = "coords" THEN XCoords
    ELSE IF ~ti.isNone THEN PyRange(ti.items[1], ti.items[2])
    ELSE PyRange(0, ntraces)

WiggleXLabel(xArg) == IF xArg = "coords" THEN "Distance [m]" ELSE "Trace number"

(* lines 194-205 of wiggle, 341-352 of imageseis *)
TimeAxis(tArg, tsi, ns) ==
    IF tArg = "coords" /\ ~tsi.isNone
    THEN PySlice(TCoords, IntOf(tsi.items[1]), IntOf(tsi.items[2]))
    ELSE IF tArg = "coords" THEN TCoords
    ELSE IF ~tsi.isNone THEN PyRange(IntOf(tsi.items[1]), IntOf(tsi.items[2]))
    ELSE PyRange(0, ns)

TimeLabel(tArg) == IF tArg = "coords" THEN "Time [s]" ELSE "Sample number"

(* ------------------------------ the figure ---------------------------- *)
(* The display session: the axes' labels and limits, whether the y axis  *)
(* is inverted, the lines and fills drawn so far, and the raster with    *)
(* its colour limits.                                                     *)
NoClim == <<[n |-> 0, d |-> 1], [n |-> 0, d |-> 1]>>

InitFig ==
    [xlabel |-> "", ylabel |-> "", xlim |-> <<0, 1>>, ylim |-> <<0, 1>>,
     yinv |-> FALSE, lines |-> <<>>, fills |-> <<>>,
     hasRaster |-> FALSE, rasterX |-> <<>>, rasterT |-> <<>>, rasterC |-> <<>>,
     clim |-> NoClim]

NoSliders == [exists |-> FALSE, cmin |-> 0, cmax |-> 0, gain |-> 1,
              top |-> 0, gain0 |-> 1]

(* ----------------------------- WigglePlotter -------------------------- *)
(* One value of  x[i] + gain * skipt * dx * trace / maxval  (line 219):  *)
(* a rational, or what numpy's float division by zero gives.             *)
TracePoint(xi, k, v, maxval) ==
    IF maxval # 0 THEN [kind |-> "num", n |-> xi * maxval + k * v, d |-> maxval]
    ELSE IF k * v = 0 THEN [kind |-> "nan", n |-> 0, d |-> 1]
    ELSE IF k * v < 0 THEN [kind |-> "-inf", n |-> 0, d |-> 1]
    ELSE [kind |-> "+inf", n |-> 0, d |-> 1]

(* np.clip(traceplt, a_min, a_max) of one value (line 220): NaN stays.   *)
ClipPoint(p, lo, hi) ==
    IF p.kind = "nan" THEN p
    ELSE IF p.kind = "-inf" THEN [kind |-> "num", n |-> Min2(lo, hi), d |-> 1]
    ELSE IF p.kind = "+inf" THEN [kind |-> "num", n |-> hi, d |-> 1]
    ELSE [kind |-> "num", n |-> Min2(Max2(p.n, lo * p.d), hi * p.d), d |-> p.d]

(* traceplt > offset, the where-mask of fill_betweenx (line 230) *)
Exceeds(p, offset) == p.kind = "num" /\ p.n > offset * p.d

PutColumn(m, c, col) ==
    Array([r \in 1..Len(m) |-> Array([cc \in 1..Len(m[r]) |->
        IF cc = c THEN col[r] ELSE m[r][cc]])])

(* Memory during a call: self, the array self.Data, and work, the local  *)
(* array Data (the result of np.clip).  trace = Data[:, i] is a view of  *)
(* the local array, so a store through it changes work only.             *)
StoreTraceAliased(mem, c, col) ==
    [self |-> Array([r \in 1..Len(mem.self) |->
                  Array([cc \in 1..Len(mem.self[r]) |->
                     IF cc = c /\ r <= Len(col) THEN col[r] \div 2
                     ELSE mem.self[r][cc]])]),
     work |-> PutColumn(mem.work, c, col)]

StoreTrace(mem, c, col) ==
    [self |-> mem.self, work |-> PutColumn(mem.work, c, col)]

(* trace[0] = 0; trace[-1] = 0  (lines 217-218) *)
Pinned(col) == [col EXCEPT ![1] = 0, ![Len(col)] = 0]

(* lines 227-229 *)
ZeroNegatives(col) ==
    Array([j \in 1..Len(col) |-> IF col[j] < 0 THEN 0 ELSE col[j]])

(* The loop of lines 212-231 from trace i on (i counts from 0).  acc     *)
(* holds the memory, the lines and fills drawn, and whether ax.plot      *)
(* raised because traceplt and t differ in length.                       *)
RECURSIVE WiggleLoop(_, _, _)
WiggleLoop(i, env, acc) ==
    IF i >= env.ntraces \/ acc.raised THEN acc
    ELSE
      LET c     == i + 1
          trace == Pinned(Column(acc.mem.work, c))
          mem1  == StoreTrace(acc.mem, c, trace)
          xi    == env.x[c]
          k     == env.gain * env.skipt * env.dx
          plt   == Array([j \in 1..Len(trace) |->
                      ClipPoint(TracePoint(xi, k, trace[j], env.maxval),
                                xi - env.dx, env.dx + xi)])
      IN  IF Len(plt) # Len(env.t)
          THEN [acc EXCEPT !.mem = mem1, !.raised = TRUE]
          ELSE
            LET line == [base |-> xi, xs |-> plt, ys |-> env.t]
                mem2 == IF env.typeD = "VA"
                        THEN StoreTrace(mem1, c, ZeroNegatives(trace))
                        ELSE mem1
                fills2 == IF env.typeD = "VA"
                          THEN Append(acc.fills,
                                 [j \in 1..Len(plt) |-> Exceeds(plt[j], xi)])
                          ELSE acc.fills
            IN  WiggleLoop(i + env.skipt, env,
                           [mem |-> mem2, lines |-> Append(acc.lines, line),
                            fills |-> fills2, raised |-> FALSE])

(* The result of a call: its outcome, the caller's timesample_interval   *)
(* after it, self.Data after it, the figure after it, and the locals     *)
(* sliced (Data after slicing), clipped (Data after np.clip), x, drawn   *)
(* (the lines this call drew) and sliders (the sliders it leaves; wiggle *)
(* makes none and its caller keeps the ones there are).                  *)
Result(outcome, tsi, self, fig, sliced, clipped, x, drawn) ==
    [outcome |-> outcome, tsi |-> tsi, self |-> self, fig |-> fig,
     sliced |-> sliced, clipped |-> clipped, x |-> x, drawn |-> drawn,
     sliders |-> NoSliders]

(* wiggle(x, t, trace_interval, timesample_interval, timewindow, perc,   *)
(* skipt, gain, typeD).  emptyRaises: whether np.percentile of an empty  *)
(* array raises (it does in some numpy releases and gives NaN in others).*)
wiggle(D, fig, xArg, tArg, ti, tsi, tw, perc, skipt, gain, typeD, emptyRaises) ==
    LET sel == SelectRange(ti, tsi, tw)
    IN  IF sel.outcome # "ok"
        THEN Result(sel.outcome, sel.tsi, D, fig, <<>>, <<>>, <<>>, <<>>)
        ELSE
        LET sliced == SliceData(D, ti, sel.tsi)
            empty  == Size(sliced) = 0
        IN  IF empty /\ emptyRaises
            THEN Result("exception", sel.tsi, D, fig, sliced, <<>>, <<>>, <<>>)
            ELSE
            LET clipped == IF empty THEN sliced ELSE ClipData(sliced, perc)
                ns      == Len(clipped)
                ntraces == IF ns = 0 THEN 0 ELSE Len(clipped[1])
                x       == WiggleX(xArg, ti, ntraces)
                fig1    == [fig EXCEPT !.xlabel = WiggleXLabel(xArg)]
                t       == TimeAxis(tArg, sel.tsi, ns)
            IN  IF Len(x) < 2 \/ empty
                THEN Result("exception", sel.tsi, D, fig1, sliced, clipped, x, <<>>)
                ELSE
                LET Dmax   == NpMax(clipped)
                    maxval == Abs(Dmax)
                    env    == [ntraces |-> ntraces, x |-> x, t |-> t,
                               dx |-> x[2] - x[1], maxval |-> maxval,
                               skipt |-> skipt, gain |-> gain, typeD |-> typeD]
                    fin    == WiggleLoop(0, env,
                                 [mem |-> [self |-> D, work |-> clipped],
                                  lines |-> <<>>, fills |-> <<>>,
                                  raised |-> FALSE])
                    fig2   == [fig1 EXCEPT !.lines = fig.lines \o fin.lines,
                                           !.fills = fig.fills \o fin.fills]
                IN  IF fin.raised
                    THEN Result("exception", sel.tsi, fin.mem.self, fig2,
                                sliced, clipped, x, fin.lines)
                    ELSE Result("drawn", sel.tsi, fin.mem.self,
                           [fig2 EXCEPT !.xlim = <<x[1] - 1, x[Len(x)] + 1>>,
                                        !.ylim = <<SeqMin(t), SeqMax(t)>>,
                                        !.yinv = ~fig.yinv,
                                        !.ylabel = TimeLabel(tArg)],
                           sliced, clipped, x, fin.lines)

(* ----------------------------- ImagePlotter --------------------------- *)
RECURSIVE GCD(_, _)
GCD(a, b) == IF b = 0 THEN a ELSE GCD(b, a % b)

(* The quotient n / d of two numbers, d > 0, in lowest terms. *)
Quot(n, d) ==
    LET g == GCD(Abs(n), d) IN [n |-> n \div g, d |-> d \div g]

(* lines 322-330: the first choice of x and xLabel *)
ImageX1(xArg, ntraces) ==
    IF xArg = "None"
    THEN [x |-> PyRange(1, ntraces + 1), label |-> "Trace number"]
    ELSE [x |-> XCoords, label |-> "Distance [m]"]

(* lines 331-339: x is never None here, whatever the caller passed *)
ImageX2(x1) == [x |-> x1.x, label |-> "Distance [m]"]

(* Data * gain *)
Scaled(m, gain) ==
    Array([r \in 1..Len(m) |-> Array([c \in 1..Len(m[r]) |-> m[r][c] * gain])])

ImageMaxvalTimesGain(m, gain) == NpMax(m) * gain

(* lines 307-309: maxval = -1; maxval = -1 * maxval * Dmax *)
ImageMaxval(m, gain) == (-1) * (-1) * NpMax(m)

(* The three sliders of lines 368-370, at their initial values. *)
MakeSliders(m, gain) ==
    [exists |-> TRUE, cmin |-> -NpMaxAbs(m), cmax |-> NpMaxAbs(m),
     gain |-> gain, top |-> NpMaxAbs(m), gain0 |-> gain]

(* imageseis(x, t, trace_interval, timesample_interval, timewindow,      *)
(* gain, perc).  meshStrict: whether pcolormesh refuses a t one longer   *)
(* than the rows of Data while x is as long as its columns (it does in   *)
(* some matplotlib releases and not in others).                           *)
imageseis(D, fig, sl, xArg, tArg, ti, tsi, tw, gain, perc, meshStrict) ==
    LET sel == SelectRange(ti, tsi, tw)
        Fail(outcome, sliced, clipped, x) ==
            [Result(outcome, sel.tsi, D, fig, sliced, clipped, x, <<>>)
                EXCEPT !.sliders = sl]
    IN  IF sel.outcome # "ok" THEN Fail(sel.outcome, <<>>, <<>>, <<>>)
        ELSE
        LET sliced == SliceData(D, ti, sel.tsi)
        IN  IF Size(sliced) = 0 THEN Fail("exception", sliced, <<>>, <<>>)
            ELSE
            LET clipped == ClipData(sliced, perc)
                ns      == Len(clipped)
                ntraces == Len(clipped[1])
                maxval  == ImageMaxval(clipped, gain)
                x1      == ImageX1(xArg, ntraces)
            IN  IF Len(x1.x) # ntraces
                THEN Fail(IF tArg = "None" THEN "exception" ELSE "config_error",
                          sliced, clipped, x1.x)
                ELSE
                LET x2 == ImageX2(x1)
                    t  == TimeAxis(tArg, sel.tsi, ns)
                IN  IF Len(t) # ns /\ (Len(t) # ns + 1 \/ meshStrict)
                    THEN Fail("exception", sliced, clipped, x2.x)
                    ELSE
                    [Result("drawn", sel.tsi, D,
                        [fig EXCEPT !.hasRaster = TRUE,
                                    !.rasterX = x2.x, !.rasterT = t,
                                    !.rasterC = Scaled(clipped, gain),
                                    !.clim = <<Quot(-1 * maxval, 1), Quot(maxval, 1)>>,
                                    !.xlabel = x2.label,
                                    !.ylabel = TimeLabel(tArg),
                                    !.yinv = ~fig.yinv],
                        sliced, clipped, x2.x, <<>>)
                     EXCEPT !.sliders = MakeSliders(clipped, gain)]

updateFromLimits(fig, sl) ==
    [fig EXCEPT !.clim = <<Quot(fig.clim[1].n, fig.clim[1].d * sl.gain),
                           Quot(fig.clim[2].n, fig.clim[2].d * sl.gain)>>]

(* update(val), lines 372-376: the colour limits from the sliders. *)
update(fig, sl) ==
    [fig EXCEPT !.clim = <<Quot(sl.cmin, sl.gain), Quot(sl.cmax, sl.gain)>>]

(* ---------------------------- the state ------------------------------- *)
(* Data, the array self.Data.  trace_interval, timesample_interval: the  *)
(* list objects the caller holds and passes to every call (or None).     *)
(* args: the other arguments the caller passes: x and t ("None" or       *)
(* "coords"), timewindow, perc, skipt, gain, typeD.  fig: the figure.    *)
(* sliders: the sliders of the latest raster.  last: the latest          *)
(* operation, its outcome and its locals.  calls: the number of wiggle   *)
(* and imageseis calls made.                                             *)
VARIABLES Data, trace_interval, timesample_interval, args, fig, sliders,
          last, calls

vars == <<Data, trace_interval, timesample_interval, args, fig, sliders,
          last, calls>>

(* The datasets: every NumSamples x NumTraces matrix with at most two    *)
(* samples that are not zero, the alternating dataset of the end-to-end  *)
(* scenario, an all-negative one and the all-zero one.                   *)
Cells == (1..NumSamples) \X (1..NumTraces)

SparseData ==
    UNION { { [r \in 1..NumSamples |-> [c \in 1..NumTraces |->
                 IF <<r, c>> \in S THEN f[<<r, c>>] ELSE 0]] : f \in [S -> Amp] }
            : S \in { T \in SUBSET Cells : Cardinality(T) <= 2 } }

WaveData ==
    [r \in 1..NumSamples |-> [c \in 1..NumTraces |->
        (IF c % 2 = 1 THEN 1 ELSE -1) * (r % 3)]]

NegData == [r \in 1..NumSamples |-> [c \in 1..NumTraces |-> -1 - (r % 2)]]

ZeroData == [r \in 1..NumSamples |-> [c \in 1..NumTraces |-> 0]]

(* The range lists a caller may hold: None, a list of the wrong length,  *)
(* or [a, b].  A time range is in sample indices, or in seconds when     *)
(* timewindow is set (0 s, 0.5 s, 0.75 s, 1.5 s).                        *)
BadLists == {List(<<>>), List(<<0>>), List(<<0, 1, 2>>)}

(* The lists [a, b] are drawn with a <= b. *)
Pairs(A, B) == {p \in A \X B : p[1] <= p[2]}

TraceRanges ==
    {NoneList} \cup BadLists
    \cup {List(<<p[1], p[2]>>) : p \in Pairs(0..NumTraces, 1..NumTraces)}

SampleRanges ==
    {NoneList}
    \cup {List(<<Num(p[1]), Num(p[2])>>) :
            p \in Pairs(0..(NumSamples - 1), 1..NumSamples)}
    \cup {List(<<>>), List(<<Num(0)>>), List(<<Num(0), Num(1), Num(2)>>)}

SecondRanges ==
    {NoneList}
    \cup {List(<<p[1], p[2]>>) : p \in Pairs({0, 2, 3}, {2, 3, 6})}
    \cup {List(<<>>), List(<<2>>), List(<<0, 2, 3>>)}

DefaultArgs ==
    [x |-> "None", t |-> "None", timewindow |-> FALSE, perc |-> 100,
     skipt |-> 1, gain |-> 1, typeD |-> "VA"]

NoCall ==
    [op |-> "none", outcome |-> "none", sliced |-> <<>>, clipped |-> <<>>,
     x |-> <<>>, drawn |-> <<>>, rows |-> <<>>]

(* Three families of callers: every dataset plotted whole with any       *)
(* percentile or any gain; the scenario dataset plotted with any ranges  *)
(* and with or without x coordinates; and the scenario datasets plotted  *)
(* whole with any coordinates, trace skip and fill mode.                 *)
InitWhole ==
    /\ Data \in SparseData \cup {WaveData, NegData}
    /\ trace_interval = NoneList
    /\ timesample_interval = NoneList
    /\ args \in { [DefaultArgs EXCEPT !.perc = p] : p \in Percs }
           \cup { [DefaultArgs EXCEPT !.gain = g] : g \in Gains }

InitRanges ==
    /\ Data = WaveData
    /\ trace_interval \in TraceRanges
    /\ \E tw \in BOOLEAN :
         /\ timesample_interval \in (IF tw THEN SecondRanges ELSE SampleRanges)
         /\ args \in { [DefaultArgs EXCEPT !.timewindow = tw, !.x = xa] :
                         xa \in {"None", "coords"} }

InitStyle ==
    /\ Data \in {WaveData, NegData, ZeroData}
    /\ trace_interval = NoneList
    /\ timesample_interval = NoneList
    /\ args \in { [DefaultArgs EXCEPT !.x = xa, !.t = ta, !.skipt = k,
                                      !.typeD = d] :
                    xa \in {"None", "coords"}, ta \in {"None", "coords"},
                    k \in Skips, d \in {"VA", "None"} }

Init ==
    /\ InitWhole \/ InitRanges \/ InitStyle
    /\ fig = InitFig
    /\ sliders = NoSliders
    /\ last = NoCall
    /\ calls = 0

(* The rows the slice of line 163 takes, from the list as the call left  *)
(* it.                                                                    *)
ResolvedRows(tsi) ==
    IF tsi.isNone \/ Len(tsi.items) # 2 THEN <<>>
    ELSE <<IntOf(tsi.items[1]), IntOf(tsi.items[2])>>

(* What last keeps of a call; rows is empty when the call ended before  *)
(* slicing.                                                              *)
Record(op, r, selected) ==
    [op |-> op, outcome |-> r.outcome, sliced |-> r.sliced,
     clipped |-> r.clipped, x |-> r.x, drawn |-> r.drawn,
     rows |-> IF selected THEN ResolvedRows(r.tsi) ELSE <<>>]

Selected ==
    SelectRange(trace_interval, timesample_interval, args.timewindow).outcome = "ok"

(* A call of wiggle with the caller's arguments. *)
Wiggle ==
    /\ calls < MaxCalls
    /\ \E emptyRaises \in BOOLEAN :
         \E r \in {wiggle(Data, fig, args.x, args.t, trace_interval,
                          timesample_interval, args.timewindow, args.perc,
                          args.skipt, args.gain, args.typeD, emptyRaises)} :
             /\ Data' = r.self
             /\ timesample_interval' = r.tsi
             /\ fig' = r.fig
             /\ last' = Record("wiggle", r, Selected)
    /\ calls' = calls + 1
    /\ UNCHANGED <<trace_interval, args, sliders>>

(* A call of imageseis with the caller's arguments. *)
Imageseis ==
    /\ calls < MaxCalls
    /\ \E meshStrict \in BOOLEAN :
         \E r \in {imageseis(Data, fig, sliders, args.x, args.t,
                             trace_interval, timesample_interval,
                             args.timewindow, args.gain, args.perc,
                             meshStrict)} :
             /\ Data' = r.self
             /\ timesample_interval' = r.tsi
             /\ fig' = r.fig
             /\ sliders' = r.sliders
             /\ last' = Record("imageseis", r, Selected)
    /\ calls' = calls + 1
    /\ UNCHANGED <<trace_interval, args>>

(* The positions a slider is moved to: its two ends. *)
Stops(lo, hi) == {lo, hi}

GainSpan == 10

(* The user moves one slider (Slider.set_val stores the value and calls  *)
(* update).                                                               *)
SliderChange ==
    /\ sliders.exists
    /\ \/ \E v \in Stops(-sliders.top, 0) : sliders' = [sliders EXCEPT !.cmin = v]
       \/ \E v \in Stops(0, sliders.top) : sliders' = [sliders EXCEPT !.cmax = v]
       \/ \E v \in Stops(sliders.gain0, GainSpan * sliders.gain0) :
             sliders' = [sliders EXCEPT !.gain = v]
    /\ fig' = update(fig, sliders')
    /\ last' = [last EXCEPT !.op = "update"]
    /\ UNCHANGED <<Data, trace_interval, timesample_interval, args, calls>>

Next == Wiggle \/ Imageseis \/ SliderChange

Spec == Init /\ [][Next]_vars

(* ------------------------------ the claims ---------------------------- *)
Plotted == last.op \in {"wiggle", "imageseis"}
Drawn == Plotted /\ last.outcome = "drawn"
IsCall == calls' = calls + 1

(* The value of a drawn point is exactly v. *)
PointIs(p, v) == p.kind = "num" /\ p.n = v * p.d

(* C1: with perc = 100 the clipped matrix equals the sliced input,       *)
(* element for element, in wiggle and in imageseis.                      *)
C1_ClipIdentity ==
    (Plotted /\ args.perc = 100 /\ last.clipped # <<>>)
        => last.clipped = last.sliced

(* C2: a call given a trace_interval or timesample_interval of a length  *)
(* other than 2 ends in the configuration error, before any slicing and  *)
(* drawing, and leaves the figure and the sliders as they were.          *)
Malformed(l) == ~l.isNone /\ Len(l.items) # 2

C2_MalformedFailsFast ==
    [][(IsCall /\ (Malformed(trace_interval) \/ Malformed(timesample_interval)))
          => /\ last'.outcome = "config_error"
             /\ last'.sliced = <<>>
             /\ fig' = fig
             /\ sliders' = sliders]_vars

(* C3: a call leaves the caller's trace_interval and timesample_interval *)
(* unchanged, and a call after another resolves to the same rows.        *)
C3_RangesUnchanged ==
    [][IsCall
          => /\ trace_interval' = trace_interval
             /\ timesample_interval' = timesample_interval
             /\ (calls >= 1 => last'.rows = last.rows)]_vars

(* C4: when the maximum of the visible data is 0, wiggle raises nothing  *)
(* and every point of every drawn trace is on its baseline.              *)
C4_ZeroAmplitudeBaseline ==
    (last.op = "wiggle" /\ last.clipped # <<>> /\ Size(last.clipped) > 0
       /\ Len(last.x) >= 2)
        => (NpMax(last.clipped) = 0
              => /\ last.outcome = "drawn"
                 /\ \A i \in 1..Len(last.drawn) :
                      \A j \in 1..Len(last.drawn[i].xs) :
                         PointIs(last.drawn[i].xs[j], last.drawn[i].base))

(* C5 as claimed: imageseis shows data * gain with the colour limits     *)
(* [-maxval, maxval], maxval = max(data) * gain.                         *)
C5_LimitsScaledByGain ==
    (last.op = "imageseis" /\ last.outcome = "drawn")
        => /\ fig.rasterC = Scaled(last.clipped, args.gain)
           /\ fig.clim[2].d = 1 /\ fig.clim[1].d = 1
           /\ fig.clim[2].n = NpMax(last.clipped) * args.gain
           /\ fig.clim[1].n = -(NpMax(last.clipped) * args.gain)

(* C5 as amended: imageseis shows data * gain with the colour limits     *)
(* [-maxval, maxval], maxval = max(data), whatever the gain.             *)
C5_LimitsFromMax ==
    (last.op = "imageseis" /\ last.outcome = "drawn")
        => /\ \A r \in 1..Len(last.clipped) : \A c \in 1..Len(last.clipped[r]) :
                 fig.rasterC[r][c] = last.clipped[r][c] * args.gain
           /\ fig.clim[2].d = 1 /\ fig.clim[1].d = 1
           /\ fig.clim[2].n = SeqMax(Flatten(last.clipped))
           /\ fig.clim[1].n = -SeqMax(Flatten(last.clipped))

C5_Witness ==
    /\ last.op = "imageseis" /\ last.outcome = "drawn"
    /\ args.gain > 1
    /\ NpMax(last.clipped) > 0

(* C6: after a slider change the colour limits are (cmin / gain,         *)
(* cmax / gain) for the sliders' current values, whatever the limits     *)
(* were before.                                                          *)
C6_LimitsFromSliders ==
    last.op = "update"
        => /\ fig.clim[1].d > 0 /\ fig.clim[2].d > 0
           /\ fig.clim[1].n * sliders.gain = sliders.cmin * fig.clim[1].d
           /\ fig.clim[2].n * sliders.gain = sliders.cmax * fig.clim[2].d

C6_Witness ==
    /\ last.op = "update"
    /\ sliders.gain # sliders.gain0
    /\ sliders.cmax = 0 /\ sliders.cmin # 0
    /\ sliders.cmin % sliders.gain # 0

(* C7: in both plotters, without x coordinates the x label is 'Trace     *)
(* number' and x is the trace range start..end-1 if trace_interval was   *)
(* given, else 0..ntraces-1; with x coordinates the label is 'Distance'. *)
C7_XAxisPolicy ==
    Drawn
        => IF args.x = "None"
           THEN /\ fig.xlabel = "Trace number"
                /\ last.x = (IF trace_interval.isNone
                             THEN PyRange(0, Len(last.clipped[1]))
                             ELSE PyRange(trace_interval.items[1],
                                          trace_interval.items[2]))
           ELSE fig.xlabel = "Distance [m]"

(* C8: the first and the last point of every trace wiggle draws are on   *)
(* the trace's baseline.                                                 *)
C8_EndpointsPinned ==
    last.op = "wiggle"
        => \A i \in 1..Len(last.drawn) :
              LET line == last.drawn[i]
              IN  /\ PointIs(line.xs[1], line.base)
                  /\ PointIs(line.xs[Len(line.xs)], line.base)

(* C9: no operation changes self.Data. *)
C9_DataReadOnly == [][Data' = Data]_vars

C9_Witness ==
    /\ last.op = "wiggle" /\ last.outcome = "drawn"
    /\ args.typeD = "VA"
    /\ Data # ZeroData
    /\ \E c \in 1..Len(last.clipped[1]) : last.clipped[1][c] # 0
    /\ \E r \in 1..Len(last.clipped) : \E c \in 1..Len(last.clipped[r]) :
          last.clipped[r][c] < 0

(* C10: with zero visible traces wiggle completes without an error,      *)
(* draws nothing and configures the axes.                                *)
ZeroTraces(m) == m # <<>> /\ \A r \in 1..Len(m) : m[r] = <<>>

C10_ZeroTracesNoOp ==
    (last.op = "wiggle" /\ ZeroTraces(last.sliced))
        => /\ last.outcome = "drawn"
           /\ last.drawn = <<>>
           /\ fig.ylabel # ""

=============================================================================
